---- MODULE Spec2Model ----
(***************************************************************************)
(* Model of the theme logic of src/index.tsx: the persisted theme setting, *)
(* the body theme class, the toggle control, and the three-phase overlay   *)
(* transition driven by animation-frame callbacks, transitionend events    *)
(* and the failsafe timer.                                                 *)
(*                                                                         *)
(* The browser is the environment.  Its part is modelled as follows:       *)
(*   - localStorage holds one value under the key themeSetting;            *)
(*   - requestAnimationFrame queues callbacks; one AnimationFrame step     *)
(*     runs every queued callback in order (no frame is rendered while     *)
(*     the tab is hidden, so a frame may be arbitrarily late);             *)
(*   - a CSS transition of an overlay property starts when that property   *)
(*     is written with a new value while style.transition names it, and    *)
(*     is cancelled when style.transition stops naming it; a running       *)
(*     transition ends in a transitionend event on the overlay, or the     *)
(*     notification is lost;                                               *)
(*   - a transitionend event of a descendant of the overlay bubbles to     *)
(*     the overlay's listeners;                                            *)
(*   - a listener registered with {once: true} is removed before it is     *)
(*     invoked, whatever the handler then does;                            *)
(*   - a pending timer may fire at any time.                               *)
(*                                                                         *)
(* The scroll-reveal observer and the anchor click handler of              *)
(* initComponents share no state with the theme logic or with each other:  *)
(* each has its own variables and its own specification (RevealSpec,       *)
(* AnchorSpec), in which the rest of the page stands still.                *)
(***************************************************************************)
EXTENDS Integers, Sequences, FiniteSets, Bags, TLC

\* Bound on the number of clicks on the theme toggle.
MaxClicks == 3

\* Bounds of the scroll-reveal part: the number of .reveal elements and the
\* number of reveal timers pending at once.
NumRevealElements == 2
MaxPendingReveals == 3

cardRevealDelayIncrement == 100

headerStickyOffset == 15

\* --header-height of the stylesheet, the height of the header element.
HeaderHeight == 70

\* The largest scroll offset of the document.
MaxScrollTop == 1400

phase1Duration == 500
phase2Duration == 700
phase3Duration == 500
failsafeDuration == phase1Duration + phase2Duration + phase3Duration + 500

THEME_SETTINGS == {"light", "dark"}

\* localStorage.getItem returns null for an absent key.
NullItem == "<null>"
\* What the store may hold under themeSetting before the page loads.
StoredValues == {NullItem, "", "light", "dark", "blue"}

\* :root custom properties of src/index.css.
BgColor == "#F4EEFF"
DarkBgColor == "#161224"

\* transitionFailsafeTimeoutId = null
NullTimeout == 0

NoTransition == [property |-> "none", duration |-> 0]
UnsetTransition == [property |-> "", duration |-> 0]

\* The inline style of the overlay before any script write: every property
\* unset, so the stylesheet rule applies (opacity 0, pointer-events none).
InitialOverlayStyle ==
    [backgroundColor |-> "", opacity |-> "", transition |-> UnsetTransition,
     pointerEvents |-> ""]

\* The DOM the script may find: the icons are looked up inside the toggle
\* button, so an icon is present only if the button is.
DomConfigs ==
    {d \in [toggle : BOOLEAN, sun : BOOLEAN, moon : BOOLEAN, overlay : BOOLEAN] :
        (d.sun \/ d.moon) => d.toggle}

VARIABLES
    themeToggleButton,            \* [present, ariaLabel]
    sunIcon,                      \* [present, classList]
    moonIcon,                     \* [present, classList]
    body,                         \* the class list of document.body
    themeOverlay,                 \* [present, style, listeners]
    isTransitioning,
    transitionFailsafeTimeoutId,
    currentThemeSetting,
    localStorage,                 \* the value under the key themeSetting
    timers,                       \* pending window timers
    rafCallbacks,                 \* queued animation-frame callbacks
    running,                      \* overlay properties with a CSS transition in progress
    transitionCount,              \* transitions started so far (names closures and timers)
    initialized,                  \* initComponents has run
    clicks,                       \* clicks on the toggle so far
    last,                         \* the operation that produced this state
    log,                          \* visible changes since the last transition started
    revealElements,               \* the .reveal elements: [classList, itemIndex]
    intersecting,                 \* what the observer last reported of each element
    revealTimers,                 \* pending reveal timers, a bag of [target, delay]
    header,                       \* the header element: [present, position, offsetHeight]
    pageYOffset,                  \* window.pageYOffset
    anchorResult                  \* what the last anchor click did

themeVars == <<themeToggleButton, sunIcon, moonIcon, body, themeOverlay, isTransitioning,
               transitionFailsafeTimeoutId, currentThemeSetting, localStorage, timers,
               rafCallbacks, running, transitionCount, initialized, clicks, last, log>>

revealVars == <<revealElements, intersecting, revealTimers>>

anchorVars == <<header, pageYOffset, anchorResult>>

vars == <<themeVars, revealVars, anchorVars>>

\* The script's state as one value, threaded through the handlers.
Cur ==
    [themeToggleButton |-> themeToggleButton, sunIcon |-> sunIcon, moonIcon |-> moonIcon,
     body |-> body, themeOverlay |-> themeOverlay, isTransitioning |-> isTransitioning,
     transitionFailsafeTimeoutId |-> transitionFailsafeTimeoutId,
     currentThemeSetting |-> currentThemeSetting, localStorage |-> localStorage,
     timers |-> timers, rafCallbacks |-> rafCallbacks, running |-> running,
     transitionCount |-> transitionCount, accepted |-> <<>>]

----------------------------------------------------------------------------
\* Writes to themeOverlay.style, with the CSS transitions they start or cancel.

OpacityValue(v) == IF v = "1" THEN 1 ELSE 0

SetOpacity(S, v) ==
    LET st == S.themeOverlay.style
        starts == st.transition.property = "opacity"
                    /\ OpacityValue(st.opacity) # OpacityValue(v)
    IN [S EXCEPT !.themeOverlay.style.opacity = v,
                 !.running = IF starts THEN @ \cup {"opacity"} ELSE @]

SetBackgroundColor(S, c) ==
    LET st == S.themeOverlay.style
        starts == st.transition.property = "background-color" /\ st.backgroundColor # c
    IN [S EXCEPT !.themeOverlay.style.backgroundColor = c,
                 !.running = IF starts THEN @ \cup {"background-color"} ELSE @]

SetTransition(S, t) ==
    [S EXCEPT !.themeOverlay.style.transition = t,
              !.running = @ \cap {t.property}]

SetPointerEvents(S, v) == [S EXCEPT !.themeOverlay.style.pointerEvents = v]

----------------------------------------------------------------------------
\* classList.toggle(name, force)
ClassToggle(classList, name, force) ==
    IF force THEN classList \cup {name} ELSE classList \ {name}

AriaLabel(setting) ==
    IF setting = "light" THEN "Tema atual: Claro. Mudar para tema escuro."
    ELSE "Tema atual: Escuro. Mudar para tema claro."

updateToggleButtonState(S, setting) ==
    IF ~S.sunIcon.present \/ ~S.moonIcon.present \/ ~S.themeToggleButton.present THEN S
    ELSE [S EXCEPT
            !.sunIcon.classList =
                ClassToggle(ClassToggle(@, "active", setting = "light"),
                            "inactive", setting # "light"),
            !.moonIcon.classList =
                ClassToggle(ClassToggle(@, "active", setting = "dark"),
                            "inactive", setting # "dark"),
            !.themeToggleButton.ariaLabel = AriaLabel(setting)]

setVisualThemeOnBody(S, actualTheme) ==
    [S EXCEPT !.body = ClassToggle(@, "dark-mode", actualTheme = "dark")]

BodyTheme(S) == IF "dark-mode" \in S.body THEN "dark" ELSE "light"

\* Mutant: the timer is not cancelled.
clearTimeout_Noop(S, id) == S

clearTimeout(S, id) == [S EXCEPT !.timers = {t \in @ : t.id # id}]

\* Mutant: the reset leaves pointer-events as it was.
resetTransitionOverlay_KeepsPointerEvents(S) ==
    LET S1 == IF S.themeOverlay.present
              THEN SetOpacity(SetTransition(S, NoTransition), "0")
              ELSE S
        S2 == [S1 EXCEPT !.isTransitioning = FALSE]
        S3 == IF S2.transitionFailsafeTimeoutId # NullTimeout
              THEN [clearTimeout(S2, S2.transitionFailsafeTimeoutId)
                        EXCEPT !.transitionFailsafeTimeoutId = NullTimeout]
              ELSE S2
    IN [S3 EXCEPT !.body = @ \ {"theme-transition-active"}]

\* Mutant: the reset forgets the failsafe timer.
resetTransitionOverlay_KeepsTimer(S) ==
    LET S1 == IF S.themeOverlay.present
              THEN SetOpacity(SetTransition(SetPointerEvents(S, "none"), NoTransition), "0")
              ELSE S
        S2 == [S1 EXCEPT !.isTransitioning = FALSE]
    IN [S2 EXCEPT !.body = @ \ {"theme-transition-active"}]

resetTransitionOverlay(S) ==
    LET S1 == IF S.themeOverlay.present
              THEN SetOpacity(SetTransition(SetPointerEvents(S, "none"), NoTransition), "0")
              ELSE S
        S2 == [S1 EXCEPT !.isTransitioning = FALSE]
        S3 == IF S2.transitionFailsafeTimeoutId # NullTimeout
              THEN [clearTimeout(S2, S2.transitionFailsafeTimeoutId)
                        EXCEPT !.transitionFailsafeTimeoutId = NullTimeout]
              ELSE S2
    IN [S3 EXCEPT !.body = @ \ {"theme-transition-active"}]

----------------------------------------------------------------------------
\* Mutant: the two colours taken from the wrong custom properties.
BgColorOf_Swapped(theme) == IF theme = "dark" THEN BgColor ELSE DarkBgColor

\* The colour custom properties read from getComputedStyle(document.documentElement).
BgColorOf(theme) == IF theme = "dark" THEN DarkBgColor ELSE BgColor

\* parseFloat(themeOverlay.style.opacity) < 1 and > 0; parseFloat("") is NaN,
\* which compares false both ways.
OpacityBelowOne(v) == v = "0"
OpacityAboveZero(v) == v = "1"

Listener(handler, tid, theme) ==
    [handler |-> handler, tid |-> tid, actualThemeToApply |-> theme, once |-> TRUE]

InSeq(x, seq) == \E i \in 1..Len(seq) : seq[i] = x

RemoveFromSeq(seq, x) == SelectSeq(seq, LAMBDA y : y # x)

\* addEventListener ignores a listener that is already registered.
addEventListener(S, l) ==
    IF InSeq(l, S.themeOverlay.listeners) THEN S
    ELSE [S EXCEPT !.themeOverlay.listeners = Append(@, l)]

removeEventListener(S, l) ==
    [S EXCEPT !.themeOverlay.listeners = RemoveFromSeq(@, l)]

requestAnimationFrame(S, cb) == [S EXCEPT !.rafCallbacks = Append(@, cb)]

Accept(S, l) == [S EXCEPT !.accepted = Append(@, [handler |-> l.handler, tid |-> l.tid])]

\* if (event.target !== themeOverlay || event.propertyName !== 'opacity'
\*     || parseFloat(themeOverlay.style.opacity) < 1) return;
Phase1Rejects(S, event) ==
    \/ event.target # "overlay"
    \/ event.propertyName # "opacity"
    \/ OpacityBelowOne(S.themeOverlay.style.opacity)

Phase2Rejects(S, event) ==
    \/ event.target # "overlay"
    \/ event.propertyName # "background-color"

Phase3Rejects(S, event) ==
    \/ event.target # "overlay"
    \/ event.propertyName # "opacity"
    \/ OpacityAboveZero(S.themeOverlay.style.opacity)

handlePhase3End(S, l, event) ==
    IF Phase3Rejects(S, event) THEN S
    ELSE resetTransitionOverlay(Accept(S, l))

handlePhase2End(S, l, event) ==
    IF Phase2Rejects(S, event) THEN S
    ELSE LET S1 == removeEventListener(Accept(S, l), l)
             S2 == SetTransition(S1, [property |-> "opacity", duration |-> phase3Duration])
             S3 == requestAnimationFrame(S2,
                       [property |-> "opacity", value |-> "0", tid |-> l.tid])
         IN addEventListener(S3, Listener("handlePhase3End", l.tid, l.actualThemeToApply))

\* The body of handlePhase1End after its filter: the instant swap behind the
\* opaque overlay, then phase 2 is armed.
SwapAndArmPhase2(S, l) ==
    LET \* body.theme-transition-active * { transition: none !important } reaches the
        \* overlay too, and the layout read commits it.
        S1 == [S EXCEPT !.body = @ \cup {"theme-transition-active"}, !.running = {}]
        S2 == setVisualThemeOnBody(S1, l.actualThemeToApply)
        S3 == [S2 EXCEPT !.body = @ \ {"theme-transition-active"}]
        S4 == SetTransition(S3, [property |-> "background-color", duration |-> phase2Duration])
        S5 == requestAnimationFrame(S4,
                  [property |-> "backgroundColor", value |-> BgColorOf(l.actualThemeToApply),
                   tid |-> l.tid])
    IN addEventListener(S5, Listener("handlePhase2End", l.tid, l.actualThemeToApply))

handlePhase1End(S, l, event) ==
    IF Phase1Rejects(S, event) THEN S
    ELSE SwapAndArmPhase2(removeEventListener(Accept(S, l), l), l)

Invoke(S, l, event) ==
    CASE l.handler = "handlePhase1End" -> handlePhase1End(S, l, event)
      [] l.handler = "handlePhase2End" -> handlePhase2End(S, l, event)
      [] OTHER -> handlePhase3End(S, l, event)

\* Dispatch of a transitionend event to the overlay's listeners: the listeners
\* registered when the dispatch starts are invoked in registration order; one
\* removed meanwhile is skipped, and a once-listener is removed before its
\* handler runs.
RECURSIVE DispatchTo(_, _, _)
DispatchTo(S, snapshot, event) ==
    IF snapshot = <<>> THEN S
    ELSE LET l == Head(snapshot)
             S1 == IF ~InSeq(l, S.themeOverlay.listeners) THEN S
                   ELSE Invoke(IF l.once THEN removeEventListener(S, l) ELSE S, l, event)
         IN DispatchTo(S1, Tail(snapshot), event)

dispatchEvent(S, event) == DispatchTo(S, S.themeOverlay.listeners, event)

\* Mutant: the failsafe tests the guard the wrong way round.
FailsafeActs_Inverted(S) == ~S.isTransitioning

\* if (isTransitioning) in the failsafe callback
FailsafeActs(S) == S.isTransitioning

\* Mutant: the failsafe keeps the theme the body shows.
FinalActualTheme_FromBody(S) == BodyTheme(S)

\* const finalActualTheme = currentThemeSetting;
FinalActualTheme(S) == S.currentThemeSetting

\* The callback given to window.setTimeout.
failsafeCallback(S) ==
    IF FailsafeActs(S)
    THEN LET S1 == resetTransitionOverlay(S)
             finalActualTheme == FinalActualTheme(S1)
             S2 == IF BodyTheme(S1) # finalActualTheme
                   THEN setVisualThemeOnBody(S1, finalActualTheme)
                   ELSE S1
         IN updateToggleButtonState(S2, S2.currentThemeSetting)
    ELSE S

setTimeout(S, id, delay) ==
    [S EXCEPT !.timers = @ \cup {[id |-> id, delay |-> delay]}]

\* Lines 84-156 of applyTheme: the transition is started.
beginTransition(S, actualThemeToApply, currentActualBodyTheme) ==
    LET tid == S.transitionCount + 1
        S1 == [S EXCEPT !.isTransitioning = TRUE, !.transitionCount = tid]
        S2 == SetBackgroundColor(S1, BgColorOf(currentActualBodyTheme))
        S3 == SetOpacity(S2, "0")
        S4 == SetTransition(S3, [property |-> "opacity", duration |-> phase1Duration])
        S5 == SetPointerEvents(S4, "auto")
        S6 == requestAnimationFrame(S5, [property |-> "opacity", value |-> "1", tid |-> tid])
        S7 == IF S6.transitionFailsafeTimeoutId # NullTimeout
              THEN clearTimeout(S6, S6.transitionFailsafeTimeoutId)
              ELSE S6
        S8 == [setTimeout(S7, tid, failsafeDuration) EXCEPT !.transitionFailsafeTimeoutId = tid]
    IN addEventListener(S8, Listener("handlePhase1End", tid, actualThemeToApply))

\* Mutant: the in-flight guard is not consulted.
SkipsTransition_NoGuard(S, actualThemeToApply, currentActualBodyTheme) ==
    actualThemeToApply = currentActualBodyTheme

\* Mutant: the visible theme is not compared.
SkipsTransition_NoCompare(S, actualThemeToApply, currentActualBodyTheme) ==
    S.isTransitioning

\* if (isTransitioning || actualThemeToApply === currentActualBodyTheme) return;
SkipsTransition(S, actualThemeToApply, currentActualBodyTheme) ==
    S.isTransitioning \/ actualThemeToApply = currentActualBodyTheme

\* if (!themeOverlay || !sunIcon || !moonIcon)
MissingElements(S) ==
    ~S.themeOverlay.present \/ ~S.sunIcon.present \/ ~S.moonIcon.present

\* The fallback branch of applyTheme.
applyThemeFallback(S, newSetting) ==
    LET S1 == [S EXCEPT !.currentThemeSetting = newSetting, !.localStorage = newSetting]
        S2 == setVisualThemeOnBody(S1, newSetting)
    IN IF S2.themeToggleButton.present THEN updateToggleButtonState(S2, newSetting) ELSE S2

\* The bookkeeping every call on the main path does first.
recordSetting(S, newSetting) ==
    updateToggleButtonState(
        [S EXCEPT !.currentThemeSetting = newSetting, !.localStorage = newSetting],
        newSetting)

applyTheme(S, newSetting, isInitialLoad) ==
    IF MissingElements(S) THEN applyThemeFallback(S, newSetting)
    ELSE LET S1 == recordSetting(S, newSetting)
             actualThemeToApply == newSetting
             currentActualBodyTheme == BodyTheme(S1)
         IN IF isInitialLoad THEN setVisualThemeOnBody(S1, actualThemeToApply)
            ELSE IF SkipsTransition(S1, actualThemeToApply, currentActualBodyTheme) THEN S1
            ELSE beginTransition(S1, actualThemeToApply, currentActualBodyTheme)

\* The theme part of initComponents: the stored value is read and normalised,
\* then applied as the initial load.
\* Mutant: any stored value that is not null is trusted.
ReadSetting_Trusting(storedSetting) ==
    IF storedSetting = NullItem THEN "light" ELSE storedSetting

\* if (storedSetting === 'dark') 'dark' else 'light'
ReadSetting(storedSetting) == IF storedSetting = "dark" THEN "dark" ELSE "light"

initTheme(S) ==
    LET storedSetting == S.localStorage
        S1 == IF ReadSetting(storedSetting) = "dark"
              THEN [S EXCEPT !.currentThemeSetting = "dark"]
              ELSE [S EXCEPT !.currentThemeSetting = ReadSetting(storedSetting),
                             !.localStorage = IF storedSetting # "light" THEN "light" ELSE @]
    IN applyTheme(S1, S1.currentThemeSetting, TRUE)

\* Mutant: the click requests the opposite of the visible theme.
toggleClick_FromVisible(S) ==
    LET newTheme == IF BodyTheme(S) = "light" THEN "dark" ELSE "light"
    IN applyTheme(S, newTheme, FALSE)

\* The click handler of the theme toggle.
toggleClick(S) ==
    LET newTheme == IF S.currentThemeSetting = "light" THEN "dark" ELSE "light"
    IN applyTheme(S, newTheme, FALSE)

\* An animation-frame callback writes one style property of the overlay.
runRafCallback(S, cb) ==
    IF cb.property = "opacity" THEN SetOpacity(S, cb.value)
    ELSE SetBackgroundColor(S, cb.value)

RECURSIVE runRafCallbacks(_, _)
runRafCallbacks(S, cbs) ==
    IF cbs = <<>> THEN S
    ELSE runRafCallbacks(runRafCallback(S, Head(cbs)), Tail(cbs))

----------------------------------------------------------------------------
\* The state machine.

ThemeInit ==
    /\ \E d \in DomConfigs :
        /\ themeToggleButton = [present |-> d.toggle, ariaLabel |-> ""]
        /\ sunIcon = [present |-> d.sun, classList |-> {}]
        /\ moonIcon = [present |-> d.moon, classList |-> {}]
        /\ themeOverlay = [present |-> d.overlay, style |-> InitialOverlayStyle,
                           listeners |-> <<>>]
    /\ body = {}
    /\ isTransitioning = FALSE
    /\ transitionFailsafeTimeoutId = NullTimeout
    /\ currentThemeSetting = "<undefined>"
    /\ localStorage \in StoredValues
    /\ timers = {}
    /\ rafCallbacks = <<>>
    /\ running = {}
    /\ transitionCount = 0
    /\ initialized = FALSE
    /\ clicks = 0
    /\ last = [op |-> "load", arg |-> "", accepted |-> <<>>]
    /\ log = <<>>

\* A page without .reveal elements: no observer is created.
NoRevealElements ==
    /\ revealElements = <<>>
    /\ intersecting = <<>>
    /\ revealTimers = EmptyBag

NoAnchorResult == [clicked |-> FALSE, href |-> [null |-> TRUE, chars |-> <<>>],
                   scrolled |-> FALSE, top |-> 0, prevented |-> FALSE,
                   escaped |-> FALSE]

\* A page without fragment links and without a header.
NoAnchors ==
    /\ header = [present |-> FALSE, position |-> "", offsetHeight |-> 0]
    /\ pageYOffset = 0
    /\ anchorResult = NoAnchorResult

\* The theme logic on a page that has neither .reveal elements nor fragment links.
Init == ThemeInit /\ NoRevealElements /\ NoAnchors

\* What an observer of the page sees change in one step.
Changes(S, T) ==
    (IF T.isTransitioning /\ ~S.isTransitioning THEN <<>>
     ELSE (IF OpacityValue(S.themeOverlay.style.opacity) # OpacityValue(T.themeOverlay.style.opacity)
           THEN << "opacity:" \o T.themeOverlay.style.opacity >> ELSE <<>>)
          \o (IF BodyTheme(S) # BodyTheme(T) THEN << "body:" \o BodyTheme(T) >> ELSE <<>>)
          \o (IF S.themeOverlay.style.backgroundColor # T.themeOverlay.style.backgroundColor
              THEN << "background:" \o T.themeOverlay.style.backgroundColor >> ELSE <<>>)
          \o (IF S.isTransitioning /\ ~T.isTransitioning THEN << "idle" >> ELSE <<>>))

\* The step to state T by operation op with argument arg: T becomes the state,
\* last records the operation and the callbacks that acted in it, and the log
\* is restarted if the step starts a transition ("stale" marks a start with
\* callbacks of an earlier transition still registered or queued).
Commit(R, op, arg, note) ==
    \E T \in {R} :
    /\ themeToggleButton' = T.themeToggleButton
    /\ sunIcon' = T.sunIcon
    /\ moonIcon' = T.moonIcon
    /\ body' = T.body
    /\ themeOverlay' = T.themeOverlay
    /\ isTransitioning' = T.isTransitioning
    /\ transitionFailsafeTimeoutId' = T.transitionFailsafeTimeoutId
    /\ currentThemeSetting' = T.currentThemeSetting
    /\ localStorage' = T.localStorage
    /\ timers' = T.timers
    /\ rafCallbacks' = T.rafCallbacks
    /\ running' = T.running
    /\ transitionCount' = T.transitionCount
    /\ last' = [op |-> op, arg |-> arg, accepted |-> T.accepted]
    /\ UNCHANGED <<revealVars, anchorVars>>
    /\ log' = IF T.isTransitioning /\ ~isTransitioning
              THEN << "start:" \o BodyTheme(Cur) \o "->" \o T.currentThemeSetting >>
                   \o (IF themeOverlay.listeners # <<>> \/ rafCallbacks # <<>>
                       THEN << "stale" >> ELSE <<>>)
              ELSE log \o note \o Changes(Cur, T)

\* window load: initComponents runs once.
InitComponents ==
    /\ ~initialized
    /\ initialized' = TRUE
    /\ UNCHANGED clicks
    /\ Commit(initTheme(Cur), "init", localStorage, <<>>)

\* The user clicks the theme toggle.
ToggleClick ==
    /\ initialized
    /\ themeToggleButton.present
    /\ clicks < MaxClicks
    /\ clicks' = clicks + 1
    /\ UNCHANGED initialized
    /\ Commit(toggleClick(Cur), "click",
              IF currentThemeSetting = "light" THEN "dark" ELSE "light", << "click" >>)

\* The browser renders a frame: the queued callbacks run in order.
AnimationFrame ==
    /\ rafCallbacks # <<>>
    /\ UNCHANGED <<initialized, clicks>>
    /\ Commit(runRafCallbacks([Cur EXCEPT !.rafCallbacks = <<>>], rafCallbacks),
              "frame", "", <<>>)

\* A CSS transition of the overlay completes and its transitionend is delivered.
TransitionEnd ==
    \E p \in running :
        /\ UNCHANGED <<initialized, clicks>>
        /\ Commit(dispatchEvent([Cur EXCEPT !.running = @ \ {p}],
                                [target |-> "overlay", propertyName |-> p]),
                  "transitionend", p, <<>>)

\* A CSS transition of the overlay completes and its notification is lost.
LoseTransitionEnd ==
    \E p \in running :
        /\ UNCHANGED <<initialized, clicks>>
        /\ Commit([Cur EXCEPT !.running = @ \ {p}], "lost", p, << "lost" >>)

\* A transitionend of a descendant of the overlay bubbles to its listeners.
BubbledTransitionEnd ==
    \E p \in {"opacity", "background-color", "transform"} :
        /\ themeOverlay.listeners # <<>>
        /\ UNCHANGED <<initialized, clicks>>
        /\ Commit(dispatchEvent(Cur, [target |-> "child", propertyName |-> p]),
                  "bubbled", p, << "bubbled" >>)

\* A pending timer fires.
FailsafeFire ==
    \E t \in timers :
        /\ UNCHANGED <<initialized, clicks>>
        /\ Commit(failsafeCallback(
                      [Cur EXCEPT !.timers = @ \ {t},
                                  !.accepted = << [handler |-> "failsafe", tid |-> t.id] >>]),
                  "failsafe", "", << "failsafe" >>)

Next ==
    \/ InitComponents
    \/ ToggleClick
    \/ AnimationFrame
    \/ TransitionEnd
    \/ LoseTransitionEnd
    \/ BubbledTransitionEnd
    \/ FailsafeFire

Spec == Init /\ [][Next]_vars

\* The failsafe timer, once armed and not cancelled, eventually fires.
FairSpec == Spec /\ WF_vars(FailsafeFire)

----------------------------------------------------------------------------
\* Scroll reveal: the IntersectionObserver of initComponents.

RevealIds == 1..NumRevealElements

\* A .reveal element, a service item or not, with its index among the children
\* of its parent.
RevealElementConfigs ==
    {f \in [RevealIds -> [classList : {{"reveal"}, {"reveal", "service-item"}},
                          itemIndex : 0..(NumRevealElements - 1)]] :
        \A e \in RevealIds : f[e].itemIndex = e - 1}

RevealState == [revealElements |-> revealElements, revealTimers |-> revealTimers]

\* currentDelay of an observer entry.
currentDelay(el) ==
    IF "service-item" \in el.classList THEN el.itemIndex * cardRevealDelayIncrement ELSE 0

\* Mutant: an element that leaves the viewport is hidden again.
revealEntry_Unreveals(R, entry) ==
    IF entry.isIntersecting
    THEN [R EXCEPT !.revealTimers =
            @ (+) SetToBag({[target |-> entry.target,
                             delay |-> currentDelay(R.revealElements[entry.target])]})]
    ELSE [R EXCEPT !.revealElements[entry.target].classList = @ \ {"visible"}]

\* The body of entries.forEach: an intersecting entry arms a timer.
revealEntry(R, entry) ==
    IF entry.isIntersecting
    THEN [R EXCEPT !.revealTimers =
            @ (+) SetToBag({[target |-> entry.target,
                             delay |-> currentDelay(R.revealElements[entry.target])]})]
    ELSE R

RECURSIVE observerCallback(_, _)
observerCallback(R, entries) ==
    IF entries = <<>> THEN R
    ELSE observerCallback(revealEntry(R, Head(entries)), Tail(entries))

\* The callback of the reveal timer: entry.target.classList.add('visible').
revealTimerCallback(R, t) ==
    [R EXCEPT !.revealElements[t.target].classList = @ \cup {"visible"}]

\* The entries the observer reports for the elements of batch: each has crossed
\* the threshold since it was last reported.
EntriesOf(batch) ==
    LET ids == SelectSeq([i \in RevealIds |-> i], LAMBDA i : i \in batch)
    IN [k \in 1..Len(ids) |->
            [target |-> ids[k], isIntersecting |-> ~intersecting[ids[k]]]]

\* The page with its .reveal elements, none visible, none reported yet.
RevealInit ==
    /\ ThemeInit /\ themeOverlay.present /\ sunIcon.present /\ moonIcon.present
    /\ localStorage = NullItem
    /\ revealElements \in RevealElementConfigs
    /\ intersecting = [e \in RevealIds |-> FALSE]
    /\ revealTimers = EmptyBag
    /\ NoAnchors

\* Elements cross the 10% threshold and the observer calls back with their entries.
IntersectionChange ==
    \E batch \in (SUBSET RevealIds) \ {{}} :
        /\ initialized
        /\ BagCardinality(revealTimers)
             + Cardinality({e \in batch : ~intersecting[e]}) <= MaxPendingReveals
        /\ \E R \in {observerCallback(RevealState, EntriesOf(batch))} :
            /\ revealElements' = R.revealElements
            /\ revealTimers' = R.revealTimers
        /\ intersecting' = [e \in RevealIds |->
                                IF e \in batch THEN ~intersecting[e] ELSE intersecting[e]]
        /\ UNCHANGED <<themeVars, anchorVars>>

\* A reveal timer fires.
RevealTimerFire ==
    \E t \in BagToSet(revealTimers) :
        /\ \E R \in {revealTimerCallback(
                        [RevealState EXCEPT !.revealTimers = @ (-) SetToBag({t})], t)} :
            /\ revealElements' = R.revealElements
            /\ revealTimers' = R.revealTimers
        /\ UNCHANGED <<intersecting, themeVars, anchorVars>>

RevealNext ==
    \/ InitComponents
    \/ IntersectionChange
    \/ RevealTimerFire

RevealSpec == RevealInit /\ [][RevealNext]_vars

----------------------------------------------------------------------------
\* Anchor scroll: the click handler of the a[href^="#"] links.

\* The elements with an id, and the document offset of each.
SectionTop == [hero |-> 0, about |-> 600, contact |-> 1400]

\* Identifiers that make '#' + identifier an invalid selector.
MalformedIdents == {"1bad"}

\* An href attribute: null, or a string as the sequence of its pieces.
Href(chars) == [null |-> FALSE, chars |-> chars]
Hrefs ==
    {[null |-> TRUE, chars |-> <<>>], Href(<<>>), Href(<<"#">>),
     Href(<<"#", "hero">>), Href(<<"#", "about">>), Href(<<"#", "contact">>),
     Href(<<"#", "missing">>), Href(<<"#", "1bad">>), Href(<<"/", "page">>)}

\* The header element: absent, or positioned by its computed style.
HeaderConfigs ==
    {[present |-> FALSE, position |-> "", offsetHeight |-> 0]}
    \cup [present : {TRUE}, position : {"sticky", "fixed", "static"},
          offsetHeight : {HeaderHeight}]

ScrollPositions == {0, 300, 600, MaxScrollTop}

AnchorState == [header |-> header, pageYOffset |-> pageYOffset, anchorResult |-> anchorResult]

\* href.startsWith("#")
startsWith(href, c) == Len(href.chars) > 0 /\ href.chars[1] = c

\* The early return of the handler: "#", null or empty, or not a fragment.
AnchorReturnsEarly(href) ==
    \/ (~href.null /\ href.chars = <<"#">>)
    \/ href.null \/ href.chars = <<>>
    \/ ~startsWith(href, "#")

\* document.querySelector(href) for a fragment: throws on an invalid selector,
\* else the element with that id or null.
querySelector(href) ==
    IF Len(href.chars) # 2 \/ href.chars[2] \in MalformedIdents
    THEN [threw |-> TRUE, found |-> FALSE, top |-> 0]
    ELSE IF href.chars[2] \in DOMAIN SectionTop
         THEN [threw |-> FALSE, found |-> TRUE, top |-> SectionTop[href.chars[2]]]
         ELSE [threw |-> FALSE, found |-> FALSE, top |-> 0]

\* Mutant: the gap is not added for a sticky or fixed header.
totalHeaderHeight_NoGap(h) ==
    IF h.present THEN h.offsetHeight ELSE 0

totalHeaderHeight(h) ==
    IF h.present
    THEN IF h.position = "sticky" \/ h.position = "fixed"
         THEN h.offsetHeight + headerStickyOffset
         ELSE h.offsetHeight
    ELSE 0

\* targetElement.getBoundingClientRect().top
BoundingClientRectTop(S, docTop) == docTop - S.pageYOffset

\* window.scrollTo({top}): the offset is kept within the document.
scrollTo(S, top) ==
    [S EXCEPT !.pageYOffset = IF top < 0 THEN 0
                              ELSE IF top > MaxScrollTop THEN MaxScrollTop ELSE top,
              !.anchorResult.scrolled = TRUE,
              !.anchorResult.top = top]

\* The click handler of an anchor whose href attribute is href.
anchorClick(S, href) ==
    LET S0 == [S EXCEPT !.anchorResult = [NoAnchorResult EXCEPT !.clicked = TRUE,
                                                                 !.href = href]]
    IN IF AnchorReturnsEarly(href) THEN S0
       ELSE LET target == querySelector(href)
            IN IF target.threw THEN S0
               ELSE IF ~target.found THEN S0
               ELSE LET S1 == [S0 EXCEPT !.anchorResult.prevented = TRUE]
                        elementPosition == BoundingClientRectTop(S1, target.top)
                                             + S1.pageYOffset
                        offsetPosition == elementPosition - totalHeaderHeight(S1.header)
                    IN scrollTo(S1, offsetPosition)

\* The page with its header and links, at the top, nothing clicked.
AnchorInit ==
    /\ ThemeInit /\ themeOverlay.present /\ sunIcon.present /\ moonIcon.present
    /\ localStorage = NullItem
    /\ NoRevealElements
    /\ header \in HeaderConfigs
    /\ pageYOffset = 0
    /\ anchorResult = NoAnchorResult

\* A click on a fragment link.
AnchorClick ==
    \E href \in Hrefs :
        /\ initialized
        /\ \E T \in {anchorClick(AnchorState, href)} :
            /\ header' = T.header
            /\ pageYOffset' = T.pageYOffset
            /\ anchorResult' = T.anchorResult
        /\ UNCHANGED <<themeVars, revealVars>>

\* The user scrolls the page.
UserScroll ==
    \E y \in ScrollPositions :
        /\ y # pageYOffset
        /\ pageYOffset' = y
        /\ UNCHANGED <<header, anchorResult, themeVars, revealVars>>

AnchorNext ==
    \/ InitComponents
    \/ AnchorClick
    \/ UserScroll

AnchorSpec == AnchorInit /\ [][AnchorNext]_vars

----------------------------------------------------------------------------
\* Vocabulary of the properties.

\* The page has the overlay and both icons: applyTheme takes its main path.
AllPresent == themeOverlay.present /\ sunIcon.present /\ moonIcon.present

IconDenotes(icon, on) ==
    icon.present => icon.classList = (IF on THEN {"active"} ELSE {"inactive"})

\* The toggle control (icon classes and aria-label) shows `setting`.
ToggleDenotes(setting) ==
    /\ themeToggleButton.present => themeToggleButton.ariaLabel = AriaLabel(setting)
    /\ IconDenotes(sunIcon, setting = "light")
    /\ IconDenotes(moonIcon, setting = "dark")

VisibleTheme == IF "dark-mode" \in body THEN "dark" ELSE "light"

InLog(x) == \E i \in 1..Len(log) : log[i] = x

\* The transition started with no callback of an earlier one pending, and since
\* then nothing but animation frames and delivered completion notifications
\* happened.
Undisturbed ==
    /\ ~InLog("stale")
    /\ ~InLog("click") /\ ~InLog("lost") /\ ~InLog("bubbled") /\ ~InLog("failsafe")

IsPrefix(s, t) == Len(s) <= Len(t) /\ \A i \in 1..Len(s) : s[i] = t[i]

\* A callback of the transition in flight tore it down in the last step.
TornDownBy(handler) ==
    \E i \in 1..Len(last.accepted) :
        last.accepted[i] = [handler |-> handler, tid |-> transitionCount]

----------------------------------------------------------------------------
\* C1: a click that calls applyTheme while a transition is in flight starts no
\* second transition (no timer armed, no listener registered, no frame callback
\* queued, overlay untouched) and leaves isTransitioning true; isTransitioning
\* goes from true to false only in a step where the handlePhase3End of the
\* transition in flight accepts its event or the failsafe of that transition
\* fires.
C1_MutualExclusion ==
    [][ /\ (isTransitioning /\ clicks' = clicks + 1) =>
            /\ isTransitioning'
            /\ UNCHANGED <<themeOverlay, timers, transitionFailsafeTimeoutId,
                           rafCallbacks, running, transitionCount, body>>
        /\ (isTransitioning /\ ~isTransitioning') =>
            (TornDownBy("handlePhase3End") \/ TornDownBy("failsafe"))'
      ]_vars

\* A click arrived while a transition was in flight, and the transition is still
\* in flight after it.
C1_Witness ==
    /\ last.op = "click" /\ isTransitioning
    /\ Len(log) > 1 /\ log[Len(log)] = "click"

\* C2: from idle with the light theme visible and nothing of an earlier
\* transition pending, a transition to dark that is only driven by frames and
\* delivered notifications shows, in this order: overlay
\* opacity to 1, body class to dark, overlay background to the dark colour,
\* overlay opacity to 0, idle; and once idle, the overlay has opacity 0 and
\* pointer-events none and the persisted setting is dark.
HappyLog ==
    << "start:light->dark", "opacity:1", "body:dark",
       "background:" \o DarkBgColor, "opacity:0", "idle" >>

C2_HappyPath ==
    (log # <<>> /\ log[1] = "start:light->dark" /\ Undisturbed) =>
        /\ IsPrefix(log, HappyLog)
        /\ isTransitioning <=> (log # HappyLog)
        /\ log = HappyLog =>
            /\ themeOverlay.style.opacity = "0"
            /\ themeOverlay.style.pointerEvents = "none"
            /\ localStorage = "dark"
            /\ VisibleTheme = "dark"

C2_Witness == log = HappyLog /\ last.op = "transitionend"

\* C3: whatever notifications are lost or rejected and whatever clicks occur, a
\* transition in flight is eventually over (the failsafe timer being fair).
C3_NeverStuck == isTransitioning ~> ~isTransitioning

\* The failsafe ended a transition whose notification was lost.
C3_Witness == last.op = "failsafe" /\ ~isTransitioning /\ InLog("lost")

\* C4: the failsafe timer is armed for 2200 ms, and when it fires the
\* transition is over, the overlay is reset, the body class equals the logical
\* and persisted setting and the toggle control shows that setting.
C4_FailsafePath ==
    /\ \A t \in timers : t.delay = 2200
    /\ last.op = "failsafe" =>
        /\ ~isTransitioning
        /\ themeOverlay.style.pointerEvents = "none"
        /\ themeOverlay.style.transition = NoTransition
        /\ themeOverlay.style.opacity = "0"
        /\ VisibleTheme = currentThemeSetting
        /\ currentThemeSetting = localStorage
        /\ ToggleDenotes(currentThemeSetting)
        /\ timers = {} /\ transitionFailsafeTimeoutId = NullTimeout

\* No notification was delivered, and the failsafe itself flipped the body class.
C4_Witness ==
    log = << "start:light->dark", "failsafe", "body:dark", "idle" >>

\* Nothing is pending: no transition in flight, no frame callback queued, no CSS
\* transition running, no timer armed, no listener registered.
Quiescent ==
    /\ initialized /\ ~isTransitioning
    /\ rafCallbacks = <<>> /\ running = {} /\ timers = {}
    /\ themeOverlay.listeners = <<>>

\* C5: on the page with all its elements, once nothing is pending the visible
\* theme, the persisted setting and the toggle control denote the same theme.
C5_EventualConsistency ==
    (AllPresent /\ Quiescent) =>
        /\ VisibleTheme = localStorage
        /\ ToggleDenotes(localStorage)

\* C6: after initialization, in every state, the logical setting, the persisted
\* value and the toggle control state are the setting of the last applyTheme
\* call.
C6_SettingRecorded ==
    initialized =>
        /\ currentThemeSetting \in THEME_SETTINGS
        /\ last.op = "click" => currentThemeSetting = last.arg
        /\ localStorage = currentThemeSetting
        /\ ToggleDenotes(currentThemeSetting)

\* The part of C6 that the code keeps: with the overlay and both icons present,
\* the three always agree after initialization.
C6_OnMainPath == AllPresent => C6_SettingRecorded

\* No transition was started and the overlay was never written.
NothingAnimated ==
    /\ ~isTransitioning
    /\ timers = {} /\ transitionFailsafeTimeoutId = NullTimeout
    /\ themeOverlay.listeners = <<>>
    /\ themeOverlay.style = InitialOverlayStyle
    /\ rafCallbacks = <<>> /\ running = {}

\* C7: after the initial load with setting s, the persisted value is s, the body
\* class and the toggle control match s, and nothing was animated.
C7_InitialLoad ==
    last.op = "init" =>
        /\ currentThemeSetting \in THEME_SETTINGS
        /\ localStorage = currentThemeSetting
        /\ VisibleTheme = currentThemeSetting
        /\ ToggleDenotes(currentThemeSetting)
        /\ NothingAnimated

\* The part of C7 that the code keeps: with the overlay and both icons present.
C7_OnMainPath == AllPresent => C7_InitialLoad

\* C8: a click while idle that requests the theme already visible starts
\* nothing: isTransitioning stays false, no timer is armed, and the overlay (its
\* style and listeners), the frame queue and the body class are unchanged.
C8_Idempotence ==
    [][ (/\ ~isTransitioning /\ clicks' = clicks + 1
         /\ last'.arg = VisibleTheme) =>
            /\ ~isTransitioning'
            /\ timers' = {} /\ transitionFailsafeTimeoutId' = NullTimeout
            /\ UNCHANGED <<themeOverlay, rafCallbacks, running, body, transitionCount>>
      ]_vars

\* A click while idle requested the visible theme on the page with all its
\* elements (the logical setting had drifted from the visible theme).
C8_Witness ==
    /\ AllPresent /\ last.op = "click" /\ ~isTransitioning
    /\ last.arg = VisibleTheme

\* C9: initComponents turns an absent or unrecognised stored value into light,
\* stored as "light", and a stored "dark" into dark; the theme is applied
\* without animation.
C9_InitNormalises ==
    last.op = "init" =>
        LET expected == IF last.arg = "dark" THEN "dark" ELSE "light"
        IN /\ currentThemeSetting = expected
           /\ localStorage = expected
           /\ VisibleTheme = expected
           /\ NothingAnimated

\* The store held an unrecognised token before the page loaded.
C9_Witness == last.op = "init" /\ last.arg \in {"", "blue"} /\ localStorage = "light"

\* C10: with the overlay or an icon absent, every applyTheme persists the
\* setting, sets the body class to it at once, shows it on the toggle control if
\* that exists, and animates nothing.
C10_MissingElementFallback ==
    (~AllPresent /\ last.op \in {"init", "click"}) =>
        /\ localStorage = currentThemeSetting
        /\ last.op = "click" => currentThemeSetting = last.arg
        /\ VisibleTheme = currentThemeSetting
        /\ ToggleDenotes(currentThemeSetting)
        /\ NothingAnimated

\* The part of C10 that the code keeps: everything but the toggle control.
C10_ExceptToggle ==
    (~AllPresent /\ last.op \in {"init", "click"}) =>
        /\ localStorage = currentThemeSetting
        /\ VisibleTheme = currentThemeSetting
        /\ (sunIcon.present /\ moonIcon.present) => ToggleDenotes(currentThemeSetting)
        /\ NothingAnimated

----------------------------------------------------------------------------
\* C11: once initComponents has run, the value stored under themeSetting is
\* "light" or "dark", whatever the store held before and whatever follows.
C11_StoredValueValid == initialized => localStorage \in THEME_SETTINGS

\* The store held no valid value before the page loaded.
C11_Witness ==
    /\ last.op = "init" /\ last.arg \notin THEME_SETTINGS
    /\ localStorage \in THEME_SETTINGS

\* C14: a transitionend that no handler accepts (wrong target, wrong property
\* or opacity threshold not reached) leaves the overlay's style, the body class
\* and the registered listeners as they were, so the genuine notification still
\* finds the listener of the phase.
C14_SpuriousIgnored ==
    [][ (last'.op \in {"bubbled", "transitionend"} /\ last'.accepted = <<>>) =>
            UNCHANGED <<themeOverlay, body, isTransitioning>>
      ]_vars

\* The part of C14 that the code keeps: a rejected notification changes neither
\* the overlay's style nor the body class nor isTransitioning.
C14_StyleAndBodyKept ==
    [][ (last'.op \in {"bubbled", "transitionend"} /\ last'.accepted = <<>>) =>
            /\ themeOverlay'.style = themeOverlay.style
            /\ UNCHANGED <<body, isTransitioning>>
      ]_vars

\* C15: every completion handler that accepts an event, and so arms the next
\* phase or tears the transition down, belongs to the transition in flight.
C15_PhasesSequential ==
    \A i \in 1..Len(last.accepted) : last.accepted[i].tid = transitionCount

\* C16: at most one failsafe timer is pending; it is the one of the transition
\* in flight, recorded in transitionFailsafeTimeoutId, and a timer that fires
\* is the timer of the transition in flight.
C16_OneFailsafeTimer ==
    /\ Cardinality(timers) <= 1
    /\ \A t \in timers :
        /\ isTransitioning
        /\ t.id = transitionCount
        /\ t.id = transitionFailsafeTimeoutId
    /\ last.op = "failsafe" => TornDownBy("failsafe")

\* The second transition completed naturally and cancelled its timer.
C16_Witness ==
    /\ transitionCount = 2 /\ TornDownBy("handlePhase3End")
    /\ timers = {}

\* C17: the overlay's pointer-events is auto exactly while a transition is in
\* flight.
C17_PointerEventsWhileInFlight ==
    isTransitioning <=> themeOverlay.style.pointerEvents = "auto"

\* A transition ended and the overlay lets the pointer through again.
C17_Witness ==
    /\ transitionCount > 0 /\ ~isTransitioning
    /\ themeOverlay.style.pointerEvents = "none"

\* C18: every click flips the logical setting, whatever is in flight, and
\* persists it; nothing else changes the setting once the page is initialized.
\* So after n clicks the setting is the initial one for n even and its opposite
\* for n odd.
C18_ClickFlipsSetting ==
    [][ /\ clicks' = clicks + 1 =>
            /\ currentThemeSetting' \in THEME_SETTINGS
            /\ currentThemeSetting' # currentThemeSetting
            /\ localStorage' = currentThemeSetting'
        /\ (initialized /\ clicks' = clicks) =>
            UNCHANGED <<currentThemeSetting, localStorage>>
      ]_vars

\* Two clicks, the second while the transition of the first was in flight,
\* brought the setting back.
C18_Witness ==
    /\ clicks = 2 /\ last.op = "click" /\ isTransitioning /\ transitionCount = 1
    /\ currentThemeSetting = VisibleTheme

\* C19: between handlers, transitionFailsafeTimeoutId is non-null exactly when
\* a transition is in flight, and exactly then a timer is pending.
C19_TimerIffInFlight ==
    /\ (transitionFailsafeTimeoutId # NullTimeout) <=> isTransitioning
    /\ (timers # {}) <=> isTransitioning

\* A transition was ended by its phase-3 handler, which cleared the timer.
C19_Witness ==
    /\ TornDownBy("handlePhase3End") /\ ~isTransitioning
    /\ transitionFailsafeTimeoutId = NullTimeout

\* C20: whenever no transition is in flight, the overlay's opacity is 0.
C20_IdleOverlayTransparent ==
    ~isTransitioning => OpacityValue(themeOverlay.style.opacity) = 0

----------------------------------------------------------------------------
\* C12: the 'visible' class of a .reveal element, once present, stays, whatever
\* the element does at the viewport's edge and however many timers are pending
\* for it; so it goes from absent to present at most once.
C12_RevealOneShot ==
    [][ \A e \in RevealIds :
            "visible" \in revealElements[e].classList =>
                "visible" \in revealElements'[e].classList ]_vars

\* An element is visible, has left the viewport, and a second timer for it is
\* still pending.
C12_Witness ==
    \E e \in DOMAIN revealElements :
        /\ "visible" \in revealElements[e].classList
        /\ ~intersecting[e]
        /\ \E t \in BagToSet(revealTimers) : t.target = e

----------------------------------------------------------------------------
\* The href names an element of the page: '#' followed by the id of a section.
NamesSection(href) ==
    /\ ~href.null
    /\ Len(href.chars) = 2
    /\ href.chars[1] = "#"
    /\ href.chars[2] \in DOMAIN SectionTop

\* C13: a click on a link scrolls exactly when its href is a fragment other than
\* "#" whose target exists; the destination is then the target's document offset
\* minus the header's height plus the 15px gap when the header is sticky or fixed
\* (minus the height alone otherwise, minus nothing without a header); the default
\* navigation is prevented exactly when the handler scrolls, and no error escapes.
C13_AnchorScroll ==
    anchorResult.clicked =>
        LET href == anchorResult.href
        IN /\ anchorResult.scrolled <=> NamesSection(href)
           /\ anchorResult.prevented <=> anchorResult.scrolled
           /\ ~anchorResult.escaped
           /\ anchorResult.scrolled =>
                LET docTop == SectionTop[href.chars[2]]
                IN /\ (header.present /\ header.position \in {"sticky", "fixed"}) =>
                        anchorResult.top = docTop - (header.offsetHeight + 15)
                   /\ (header.present /\ header.position \notin {"sticky", "fixed"}) =>
                        anchorResult.top = docTop - header.offsetHeight
                   /\ ~header.present => anchorResult.top = docTop

\* A click never moves the page unless it scrolls to its destination.
C13_NoScrollOtherwise ==
    [][ (anchorResult' # anchorResult /\ ~anchorResult'.scrolled) =>
            pageYOffset' = pageYOffset ]_vars

\* Under the sticky header a click on #about has scrolled the page to 600 - 85.
C13_Witness ==
    /\ anchorResult.clicked /\ anchorResult.scrolled
    /\ header.present /\ header.position = "sticky"
    /\ anchorResult.href.chars = <<"#", "about">>
    /\ pageYOffset = 515

----------------------------------------------------------------------------
\* C21: no completion handler outlives its transition: whenever no transition
\* is in flight, no handlePhase1End, handlePhase2End or handlePhase3End listener
\* is registered on the overlay.
C21_NoHandlerOutlives ==
    ~isTransitioning => themeOverlay.listeners = <<>>

\* What holds of C21: a transition that started with no listener registered and
\* completed by its own handlePhase3End leaves none behind.
C21_AfterCleanCompletion ==
    (~isTransitioning /\ TornDownBy("handlePhase3End") /\ ~InLog("stale")) =>
        themeOverlay.listeners = <<>>

\* And a listener still registered is a handler of a transition that started.
C21_ListenersOfStartedTransitions ==
    \A i \in 1..Len(themeOverlay.listeners) :
        /\ themeOverlay.listeners[i].tid \in 1..transitionCount
        /\ themeOverlay.listeners[i].handler
             \in {"handlePhase1End", "handlePhase2End", "handlePhase3End"}

====
